---- MODULE Spec2Model ----
(***************************************************************************)
(* The sharded ledger of quarkchain/chain.py: per-shard UTXO pools and     *)
(* minor chains (ShardState), the root chain (RootChain) and the           *)
(* coordinator (QuarkChainState).  Every operation of the code is an       *)
(* operator from the state it reads to its result and the state it leaves  *)
(* behind; an exception is a result "raise <Error>" together with the      *)
(* state as it was when the exception left the method.                     *)
(***************************************************************************)
EXTENDS Integers, Sequences, FiniteSets, TLC

VARIABLES
    shardList,                       \* QuarkChainState.shardList: shard id -> [chain, utxoPool, branch]
    rootChain,                       \* QuarkChainState.rootChain: [chain, blockPool, tip]
    uncommittedMinorBlockHeaderSet,  \* QuarkChainState.uncommittedMinorBlockHeaderSet
    db,                              \* env.db: [tx, txRootBlockHeader, mblock, rblock]
    proofOfProgressBlocks,           \* env.config.PROOF_OF_PROGRESS_BLOCKS
    miner                            \* a Miner, its worker process and its handler coroutine

vars == <<shardList, rootChain, uncommittedMinorBlockHeaderSet, db, proofOfProgressBlocks,
          miner>>

(***************************************************************************)
(* Configuration and bounds.                                               *)
(***************************************************************************)
ShardSize == 2
GenesisMinorCoin == 1
SKIP_MINOR_DIFFICULTY_CHECK == TRUE
SKIP_MINOR_COINBASE_CHECK == TRUE
SKIP_ROOT_DIFFICULTY_CHECK == TRUE

MaxProofOfProgress == 2
MaxMinorHeight == 2
MaxRootHeight == 2
MaxRootHeaders == 3
MaxTxTotal == 2
MaxTxPerBlock == 2
MaxQuarkash == 1
MaxRolledBack == 1
MaxCreated == 3
MaxPending == 2

Shards == 0..(ShardSize - 1)
None == "None"

(***************************************************************************)
(* Dictionaries (Python dict) as functions.                                *)
(***************************************************************************)
EmptyDict == [k \in {} |-> k]
DictPut(d, k, v) == [x \in (DOMAIN d) \cup {k} |-> IF x = k THEN v ELSE d[x]]
DictDel(d, k) == [x \in (DOMAIN d) \ {k} |-> d[x]]

RECURSIVE SumSeq(_)
SumSeq(s) == IF s = <<>> THEN 0 ELSE s[1] + SumSeq(Tail(s))

RECURSIVE BitAnd(_, _)
BitAnd(a, b) == IF a = 0 \/ b = 0 THEN 0
                ELSE (a % 2) * (b % 2) + 2 * BitAnd(a \div 2, b \div 2)

Reversed(s) == [i \in 1..Len(s) |-> s[Len(s) + 1 - i]]

(***************************************************************************)
(* quarkchain.core: hashes, codes, branches.  A hash is collision free: it *)
(* is the one-element tuple of what was hashed; bytes(32) is the empty one.*)
(***************************************************************************)
GetHash(x) == <<x>>
ZeroHash == <<>>
CalculateMerkleRoot(list) == <<"merkle", list>>

TxCode == [type |-> "tx", height |-> 0]
CreateMinorBlockCoinbaseCode(height) == [type |-> "minorCoinbase", height |-> height]
CreateRootBlockCoinbaseCode(height) == [type |-> "rootCoinbase", height |-> height]

Branch(shardSize, shardId) == [shardSize |-> shardSize, shardId |-> shardId]
IsInShard(branch, fullShardId) == (fullShardId % branch.shardSize) = branch.shardId

TransactionInput(hash, index) == [hash |-> hash, index |-> index]
TransactionOutput(recipient, fullShardId, quarkash) ==
    [recipient |-> recipient, fullShardId |-> fullShardId, quarkash |-> quarkash]
Transaction(inList, code, outList, sign) ==
    [inList |-> inList, code |-> code, outList |-> outList, sign |-> sign]
VerifySignature(tx, senderList) == tx.sign = senderList

UtxoValue(recipient, quarkash, rootBlockHeader) ==
    [recipient |-> recipient, quarkash |-> quarkash, rootBlockHeader |-> rootBlockHeader]

(***************************************************************************)
(* quarkchain.genesis: the genesis root block embeds the genesis minor     *)
(* header of every shard, in shard order.                                  *)
(***************************************************************************)
GenesisRootCoinbaseTx ==
    Transaction(<<>>, CreateRootBlockCoinbaseCode(0),
                <<TransactionOutput("alice", 0, 0)>>, <<>>)
GenesisRootHeader ==
    [height |-> 0, hashPrevBlock |-> ZeroHash,
     hashMerkleRoot |-> CalculateMerkleRoot(<<>>),
     hashCoinbaseTx |-> GetHash(GenesisRootCoinbaseTx),
     shardInfo |-> [shardSize |-> ShardSize]]
GenesisMinorCoinbaseTx(shardId) ==
    Transaction(<<>>, CreateMinorBlockCoinbaseCode(0),
                <<TransactionOutput("alice", shardId, GenesisMinorCoin)>>, <<>>)
GenesisMinorBlock(shardId) ==
    [header |-> [height |-> 0, hashPrevMinorBlock |-> ZeroHash,
                 hashPrevRootBlock |-> GetHash(GenesisRootHeader),
                 hashMerkleRoot |-> CalculateMerkleRoot(<<GenesisMinorCoinbaseTx(shardId)>>),
                 branch |-> Branch(ShardSize, shardId)],
     txList |-> <<GenesisMinorCoinbaseTx(shardId)>>]
GenesisRootBlock ==
    [header |-> GenesisRootHeader,
     coinbaseTx |-> GenesisRootCoinbaseTx,
     minorBlockHeaderList |-> [i \in 1..ShardSize |-> GenesisMinorBlock(i - 1).header]]

(***************************************************************************)
(* env.db: the transaction store and the block stores.                     *)
(***************************************************************************)
DbPutTx(d, tx, rootBlockHeader) ==
    [d EXCEPT !.tx = DictPut(@, GetHash(tx), tx),
              !.txRootBlockHeader = DictPut(@, GetHash(tx), rootBlockHeader)]
DbGetTx(d, hash) == d.tx[hash]
DbGetTxRootBlockHeader(d, hash) == d.txRootBlockHeader[hash]
DbPutMinorBlock(d, block) ==
    [d EXCEPT !.mblock = DictPut(@, GetHash(block.header), block)]
DbGetMinorBlockByHash(d, hash) == d.mblock[hash]
\* b'mblockCoinbaseTx_' + hash is written together with b'mblock_' + hash and
\* holds the first transaction of the same block.
DbGetMinorBlockCoinbaseTx(d, hash) == d.mblock[hash].txList[1]
DbPutRootBlock(d, block) ==
    [d EXCEPT !.rblock = DictPut(@, GetHash(block.header), block)]
DbGetRootBlockByHash(d, hash) == d.rblock[hash]

(***************************************************************************)
(* ShardState.  A shard is [chain, utxoPool, branch]; the database is      *)
(* shared by all shards and the root chain.                                *)
(***************************************************************************)
ShardStateInit(genesisBlock, genesisRootHeader) ==
    [chain |-> <<genesisBlock>>,
     utxoPool |-> DictPut(EmptyDict,
                          TransactionInput(GetHash(genesisBlock.txList[1]), 0),
                          UtxoValue(genesisBlock.txList[1].outList[1].recipient,
                                    genesisBlock.txList[1].outList[1].quarkash,
                                    genesisRootHeader)),
     branch |-> genesisBlock.header.branch]

\* The checks of the loop over tx.inList: no input repeats, every input is
\* in the pool, and none is confirmed above rootBlockHeader.
TxInputsOk(utxoPool, tx, rootBlockHeader) ==
    \A i \in 1..Len(tx.inList) :
        /\ \A j \in 1..(i - 1) : tx.inList[j] # tx.inList[i]
        /\ tx.inList[i] \in DOMAIN utxoPool
        /\ utxoPool[tx.inList[i]].rootBlockHeader.height <= rootBlockHeader.height

\* txInputQuarkash after the loop: each iteration assigns it.
TxInputQuarkash(utxoPool, tx) == utxoPool[tx.inList[Len(tx.inList)]].quarkash

TxSenderList(utxoPool, tx) ==
    [i \in 1..Len(tx.inList) |-> utxoPool[tx.inList[i]].recipient]

TxOutputQuarkash(tx) == SumSeq([i \in 1..Len(tx.outList) |-> tx.outList[i].quarkash])

\* A pool update that inserts every output, whatever shard it is addressed to.
TxApplyToPoolAllOutputs(utxoPool, branch, tx, rootBlockHeader) ==
    LET txHash == GetHash(tx)
        spent == {tx.inList[i] : i \in 1..Len(tx.inList)}
        added == {TransactionInput(txHash, i - 1) : i \in 1..Len(tx.outList)}
    IN  [k \in ((DOMAIN utxoPool) \ spent) \cup added |->
            IF k \in added
            THEN UtxoValue(tx.outList[k.index + 1].recipient,
                           tx.outList[k.index + 1].quarkash,
                           rootBlockHeader)
            ELSE utxoPool[k]]

\* The pool after the deletions and insertions of a valid transaction.
TxApplyToPool(utxoPool, branch, tx, rootBlockHeader) ==
    LET txHash == GetHash(tx)
        local == {i \in 1..Len(tx.outList) : IsInShard(branch, tx.outList[i].fullShardId)}
        spent == {tx.inList[i] : i \in 1..Len(tx.inList)}
        added == {TransactionInput(txHash, i - 1) : i \in local}
    IN  [k \in ((DOMAIN utxoPool) \ spent) \cup added |->
            IF k \in added
            THEN UtxoValue(tx.outList[k.index + 1].recipient,
                           tx.outList[k.index + 1].quarkash,
                           rootBlockHeader)
            ELSE utxoPool[k]]

\* ShardState.__performTx: fee is -1 for an invalid transaction.
PerformTx(utxoPool, branch, d, tx, rootBlockHeader) ==
    LET invalid == [fee |-> -1, utxoPool |-> utxoPool, db |-> d]
    IN  IF Len(tx.inList) = 0 THEN invalid
        ELSE IF ~TxInputsOk(utxoPool, tx, rootBlockHeader) THEN invalid
        ELSE IF ~VerifySignature(tx, TxSenderList(utxoPool, tx)) THEN invalid
        ELSE IF TxOutputQuarkash(tx) > TxInputQuarkash(utxoPool, tx) THEN invalid
        ELSE [fee |-> TxInputQuarkash(utxoPool, tx) - TxOutputQuarkash(tx),
              utxoPool |-> TxApplyToPool(utxoPool, branch, tx, rootBlockHeader),
              db |-> DbPutTx(d, tx, rootBlockHeader)]

\* The first loop of __rollBackTx: del utxoPool[(txHash, i)] for i = 0, 1, ...;
\* a key that is not in the pool raises KeyError and ends the loop there.
RECURSIVE RollBackTxOutputs(_, _, _)
RollBackTxOutputs(utxoPool, tx, i) ==
    IF i >= Len(tx.outList) THEN [result |-> None, utxoPool |-> utxoPool]
    ELSE LET key == TransactionInput(GetHash(tx), i)
         IN  IF key \notin DOMAIN utxoPool
             THEN [result |-> "raise KeyError", utxoPool |-> utxoPool]
             ELSE RollBackTxOutputs(DictDel(utxoPool, key), tx, i + 1)

\* The second loop of __rollBackTx: every input is put back as the database
\* records the transaction that made it.
RECURSIVE RollBackTxInputs(_, _, _, _)
RollBackTxInputs(utxoPool, d, tx, i) ==
    IF i > Len(tx.inList) THEN utxoPool
    ELSE LET txInput == tx.inList[i]
             prevTx == DbGetTx(d, txInput.hash)
             rootBlockHeader == DbGetTxRootBlockHeader(d, txInput.hash)
         IN  RollBackTxInputs(
                 DictPut(utxoPool, txInput,
                         UtxoValue(prevTx.outList[txInput.index + 1].recipient,
                                   prevTx.outList[txInput.index + 1].quarkash,
                                   rootBlockHeader)),
                 d, tx, i + 1)

\* ShardState.__rollBackTx: returns None.
RollBackTx(utxoPool, d, tx) ==
    LET outs == RollBackTxOutputs(utxoPool, tx, 0)
    IN  IF outs.result # None THEN outs
        ELSE [result |-> None, utxoPool |-> RollBackTxInputs(outs.utxoPool, d, tx, 1)]

\* txDoneList of appendBlock: created empty, and nothing is appended to it.
TxDoneList == <<>>

\* for rTx in reversed(txDoneList): assert(__rollBackTx(rTx)); the value
\* __rollBackTx returns is None, so the assertion fails after the first one.
AppendBlockUnwind(utxoPool, d, txDoneList) ==
    IF txDoneList = <<>>
    THEN [result |-> "one transaction is invalid", utxoPool |-> utxoPool]
    ELSE LET rb == RollBackTx(utxoPool, d, txDoneList[Len(txDoneList)])
         IN  [result |-> IF rb.result = None THEN "raise AssertionError" ELSE rb.result,
              utxoPool |-> rb.utxoPool]

\* for tx in block.txList[1:]: the transactions from position i on.
RECURSIVE AppendBlockTxLoop(_, _, _, _, _, _, _)
AppendBlockTxLoop(utxoPool, branch, d, txList, i, rootBlockHeader, fees) ==
    IF i > Len(txList)
    THEN [result |-> None, utxoPool |-> utxoPool, db |-> d, fees |-> fees]
    ELSE LET r == PerformTx(utxoPool, branch, d, txList[i], rootBlockHeader)
         IN  IF r.fee < 0
             THEN LET u == AppendBlockUnwind(utxoPool, d, TxDoneList)
                  IN  [result |-> u.result, utxoPool |-> u.utxoPool, db |-> d,
                       fees |-> fees]
             ELSE AppendBlockTxLoop(r.utxoPool, branch, r.db, txList, i + 1,
                                    rootBlockHeader, Append(fees, r.fee))

\* The coinbase outputs enter the pool after the transactions.
AppendBlockCoinbase(utxoPool, tx, rootBlockHeader) ==
    LET added == {TransactionInput(GetHash(tx), i - 1) : i \in 1..Len(tx.outList)}
    IN  [k \in (DOMAIN utxoPool) \cup added |->
            IF k \in added
            THEN UtxoValue(tx.outList[k.index + 1].recipient,
                           tx.outList[k.index + 1].quarkash,
                           rootBlockHeader)
            ELSE utxoPool[k]]

\* ShardState.appendBlock: [result, shard, db].
ShardAppendBlock(shard, rc, d, block) ==
    LET fail(msg) == [result |-> msg, shard |-> shard, db |-> d]
        tip == shard.chain[Len(shard.chain)]
    IN  IF block.header.hashPrevMinorBlock # GetHash(tip.header)
        THEN fail("prev hash mismatch")
        ELSE IF block.header.height # tip.header.height + 1
        THEN fail("height mismatch")
        ELSE IF ~SKIP_MINOR_DIFFICULTY_CHECK
        THEN fail("incorrect difficulty")
        ELSE IF CalculateMerkleRoot(block.txList) # block.header.hashMerkleRoot
        THEN fail("incorrect merkle root")
        ELSE IF Len(block.txList) = 0
        THEN fail("coinbase tx must exist")
        ELSE IF Len(block.txList[1].inList) # 0
        THEN fail("coinbase tx's input must be empty")
        ELSE IF Len(block.txList[1].outList) # 1
        THEN fail("coinbase tx's output must be one")
        ELSE IF ~IsInShard(shard.branch, block.txList[1].outList[1].fullShardId)
        THEN fail("coinbase output must be in local shard")
        ELSE IF block.txList[1].code # CreateMinorBlockCoinbaseCode(block.header.height)
        THEN fail("incorrect coinbase code")
        ELSE IF ~SKIP_MINOR_COINBASE_CHECK
        THEN fail("incorrect coinbase value")
        ELSE IF block.header.hashPrevRootBlock \notin DOMAIN rc.blockPool
        THEN fail("cannot find root block for the minor block")
        ELSE
        LET rootBlockHeader == rc.blockPool[block.header.hashPrevRootBlock]
            loop == AppendBlockTxLoop(shard.utxoPool, shard.branch, d, block.txList, 2,
                                      rootBlockHeader, <<>>)
        IN  IF loop.result # None
            THEN [result |-> loop.result,
                  shard |-> [shard EXCEPT !.utxoPool = loop.utxoPool],
                  db |-> loop.db]
            ELSE [result |-> None,
                  shard |-> [shard EXCEPT
                      !.utxoPool = AppendBlockCoinbase(loop.utxoPool, block.txList[1],
                                                       rootBlockHeader),
                      !.chain = Append(@, block)],
                  db |-> DbPutMinorBlock(DbPutTx(loop.db, block.txList[1], rootBlockHeader),
                                         block)]

\* for rTx in reversed(block.txList[1:]): __rollBackTx(rTx), from position i
\* of the reversed list; a KeyError leaves the loop and the method.
RECURSIVE RollBackTipTxLoop(_, _, _, _)
RollBackTipTxLoop(utxoPool, d, rTxList, i) ==
    IF i > Len(rTxList) THEN [result |-> None, utxoPool |-> utxoPool]
    ELSE LET rb == RollBackTx(utxoPool, d, rTxList[i])
         IN  IF rb.result # None THEN rb
             ELSE RollBackTipTxLoop(rb.utxoPool, d, rTxList, i + 1)

\* A rollBackTip without the test for the genesis block.
ShardRollBackTipUnguarded(shard, d) ==
    LET block == shard.chain[Len(shard.chain)]
        popped == [shard EXCEPT !.chain = SubSeq(@, 1, Len(@) - 1)]
        loop == RollBackTipTxLoop(shard.utxoPool, d, Reversed(Tail(block.txList)), 1)
        coinbase == RollBackTxOutputs(loop.utxoPool, block.txList[1], 0)
    IN  IF loop.result # None
        THEN [result |-> loop.result, shard |-> [popped EXCEPT !.utxoPool = loop.utxoPool]]
        ELSE [result |-> coinbase.result,
              shard |-> [popped EXCEPT !.utxoPool = coinbase.utxoPool]]

\* ShardState.rollBackTip: [result, shard].
ShardRollBackTip(shard, d) ==
    IF Len(shard.chain) = 1
    THEN [result |-> "Cannot roll back genesis block", shard |-> shard]
    ELSE LET block == shard.chain[Len(shard.chain)]
             popped == [shard EXCEPT !.chain = SubSeq(@, 1, Len(@) - 1)]
             loop == RollBackTipTxLoop(shard.utxoPool, d, Reversed(Tail(block.txList)), 1)
             coinbase == RollBackTxOutputs(loop.utxoPool, block.txList[1], 0)
         IN  IF loop.result # None
             THEN [result |-> loop.result, shard |-> [popped EXCEPT !.utxoPool = loop.utxoPool]]
             ELSE [result |-> coinbase.result,
                   shard |-> [popped EXCEPT !.utxoPool = coinbase.utxoPool]]

\* An addCrossShardUtxo whose assertion is the wrong way round.
AddCrossShardUtxoInverted(shard, txInput, utxoValue) ==
    IF txInput \notin DOMAIN shard.utxoPool
    THEN [result |-> "raise AssertionError", shard |-> shard]
    ELSE [result |-> None,
          shard |-> [shard EXCEPT !.utxoPool = DictPut(@, txInput, utxoValue)]]

\* ShardState.addCrossShardUtxo and removeCrossShardUtxo.
AddCrossShardUtxo(shard, txInput, utxoValue) ==
    IF txInput \in DOMAIN shard.utxoPool
    THEN [result |-> "raise AssertionError", shard |-> shard]
    ELSE [result |-> None,
          shard |-> [shard EXCEPT !.utxoPool = DictPut(@, txInput, utxoValue)]]
RemoveCrossShardUtxo(shard, txInput) ==
    IF txInput \notin DOMAIN shard.utxoPool
    THEN [result |-> "raise KeyError", shard |-> shard]
    ELSE [result |-> None, shard |-> [shard EXCEPT !.utxoPool = DictDel(@, txInput)]]

(***************************************************************************)
(* RootChain.  chain holds headers; blockPool maps a hash to its header;   *)
(* tip is the attribute that __init__ assigns (the genesis block), which   *)
(* hides the method of the same name.                                      *)
(***************************************************************************)
RootChainInit(genesisBlock) ==
    [chain |-> <<genesisBlock.header>>,
     blockPool |-> DictPut(EmptyDict, GetHash(genesisBlock.header), genesisBlock.header),
     tip |-> genesisBlock]

\* RootChain.rollBack: [result, rootChain].
RootChainRollBack(rc) ==
    IF Len(rc.chain) = 1
    THEN [result |-> "cannot roll back genesis block", rootChain |-> rc]
    ELSE [result |-> None,
          rootChain |-> [rc EXCEPT
              !.blockPool = DictDel(@, GetHash(rc.chain[Len(rc.chain)])),
              !.chain = SubSeq(@, 1, Len(@) - 1)]]

CheckCoinbaseTx(tx, height) ==
    /\ Len(tx.inList) = 0
    /\ tx.code = CreateRootBlockCoinbaseCode(height)
    /\ Len(tx.outList) = 1

GetBlockCoinbaseQuarkash(d, blockHash) ==
    DbGetMinorBlockCoinbaseTx(d, blockHash).outList[1].quarkash

\* The loop "for mheader in block.minorBlockHeaderList" that checks each
\* header against the uncommitted set and the shard size, from position i.
RECURSIVE CheckMinorHeaders(_, _, _)
CheckMinorHeaders(block, uncommitted, i) ==
    IF i > Len(block.minorBlockHeaderList) THEN None
    ELSE LET mheader == block.minorBlockHeaderList[i]
         IN  IF mheader \notin uncommitted
             THEN "root block confirms non-exist block"
             ELSE IF mheader.branch.shardSize # block.header.shardInfo.shardSize
             THEN "root block shard size mismatches minor header"
             ELSE CheckMinorHeaders(block, uncommitted, i + 1)

\* The loop over prevBlock.minorBlockHeaderList that collects lastBlockHashList;
\* shardId is 0 throughout the loop, and prevHeader follows the list.
RECURSIVE LastBlockHashLoop(_, _, _, _, _)
LastBlockHashLoop(list, i, shardId, prevHeader, lastBlockHashList) ==
    IF i > Len(list) THEN [result |-> None, lastBlockHashList |-> lastBlockHashList]
    ELSE LET mheader == list[i]
         IN  IF shardId # mheader.branch.shardId
             THEN IF shardId + 1 # mheader.branch.shardId
                  THEN [result |-> "raise AssertionError",
                        lastBlockHashList |-> lastBlockHashList]
                  ELSE LastBlockHashLoop(list, i + 1, shardId, mheader,
                                         Append(lastBlockHashList, GetHash(prevHeader)))
             ELSE LastBlockHashLoop(list, i + 1, shardId, mheader, lastBlockHashList)

\* lastBlockHashList of the previous root block, with the two assertions.
LastBlockHashList(prevBlock) ==
    IF Len(prevBlock.minorBlockHeaderList) = 0
    THEN [result |-> "raise IndexError", lastBlockHashList |-> <<>>]
    ELSE LET loop == LastBlockHashLoop(prevBlock.minorBlockHeaderList, 1, 0,
                                       prevBlock.minorBlockHeaderList[1], <<>>)
             list == Append(loop.lastBlockHashList,
                            GetHash(prevBlock.minorBlockHeaderList[
                                        Len(prevBlock.minorBlockHeaderList)]))
         IN  IF loop.result # None THEN loop
             ELSE IF Len(list) # prevBlock.header.shardInfo.shardSize
             THEN [result |-> "raise AssertionError", lastBlockHashList |-> list]
             ELSE [result |-> None, lastBlockHashList |-> list]

\* A walk that does not compare a header with the one before it in its shard.
RECURSIVE WalkMinorHeadersUnlinked(_, _, _, _, _, _, _)
WalkMinorHeadersUnlinked(list, i, shardId, prevHeader, blockCountInShard, lastBlockHashList, pop) ==
    IF i > Len(list)
    THEN [result |-> None, shardId |-> shardId, blockCountInShard |-> blockCountInShard]
    ELSE LET mheader == list[i]
             stop(msg) == [result |-> msg, shardId |-> shardId,
                           blockCountInShard |-> blockCountInShard]
         IN  IF mheader.branch.shardId = shardId
             THEN WalkMinorHeadersUnlinked(list, i + 1, shardId, mheader,
                                           blockCountInShard + 1, lastBlockHashList, pop)
             ELSE IF mheader.branch.shardId # shardId + 1
             THEN stop("shard id must be ordered")
             ELSE IF blockCountInShard < pop
             THEN stop("fail to prove progress")
             ELSE IF mheader.branch.shardId + 1 > Len(lastBlockHashList)
             THEN stop("raise IndexError")
             ELSE IF mheader.hashPrevMinorBlock # lastBlockHashList[mheader.branch.shardId + 1]
             THEN stop("first minor block in shard doesn't link to previous one in previous root block")
             ELSE WalkMinorHeadersUnlinked(list, i + 1, mheader.branch.shardId, mheader,
                                           blockCountInShard, lastBlockHashList, pop)

\* The walk "for mheader in block.minorBlockHeaderList[1:]", from position i,
\* with the loop's shardId, prevHeader and blockCountInShard.
RECURSIVE WalkMinorHeaders(_, _, _, _, _, _, _)
WalkMinorHeaders(list, i, shardId, prevHeader, blockCountInShard, lastBlockHashList, pop) ==
    IF i > Len(list)
    THEN [result |-> None, shardId |-> shardId, blockCountInShard |-> blockCountInShard]
    ELSE LET mheader == list[i]
             stop(msg) == [result |-> msg, shardId |-> shardId,
                           blockCountInShard |-> blockCountInShard]
         IN  IF mheader.branch.shardId = shardId
             THEN IF mheader.hashPrevMinorBlock # GetHash(prevHeader)
                  THEN stop("minor block doesn't link to previous minor block")
                  ELSE WalkMinorHeaders(list, i + 1, shardId, mheader,
                                        blockCountInShard + 1, lastBlockHashList, pop)
             ELSE IF mheader.branch.shardId # shardId + 1
             THEN stop("shard id must be ordered")
             ELSE IF blockCountInShard < pop
             THEN stop("fail to prove progress")
             ELSE IF mheader.branch.shardId + 1 > Len(lastBlockHashList)
             THEN stop("raise IndexError")
             ELSE IF mheader.hashPrevMinorBlock # lastBlockHashList[mheader.branch.shardId + 1]
             THEN stop("first minor block in shard doesn't link to previous one in previous root block")
             ELSE WalkMinorHeaders(list, i + 1, mheader.branch.shardId, mheader,
                                   blockCountInShard, lastBlockHashList, pop)

\* A total that counts the first header in the loop as well.
TotalMinorCoinbaseFirstTwice(d, list) ==
    GetBlockCoinbaseQuarkash(d, GetHash(list[1]))
    + SumSeq([i \in 1..Len(list) |-> GetBlockCoinbaseQuarkash(d, GetHash(list[i]))])

TotalMinorCoinbase(d, list) ==
    SumSeq([i \in 1..Len(list) |-> GetBlockCoinbaseQuarkash(d, GetHash(list[i]))])

\* A commit that leaves the embedded headers in the uncommitted set.
RemoveUncommittedKeepsAll(uncommitted, list, i) ==
    [result |-> None, uncommitted |-> uncommitted]

\* for mheader in block.minorBlockHeaderList: uncommittedSet.remove(mheader),
\* from position i; set.remove raises KeyError for an element that is not there.
RECURSIVE RemoveUncommitted(_, _, _)
RemoveUncommitted(uncommitted, list, i) ==
    IF i > Len(list) THEN [result |-> None, uncommitted |-> uncommitted]
    ELSE IF list[i] \notin uncommitted
    THEN [result |-> "raise KeyError", uncommitted |-> uncommitted]
    ELSE RemoveUncommitted(uncommitted \ {list[i]}, list, i + 1)

\* RootChain.appendBlock: [result, rootChain, db, uncommitted].
RootChainAppendBlock(rc, d, uncommitted, block, pop) ==
    LET fail(msg) == [result |-> msg, rootChain |-> rc, db |-> d,
                      uncommitted |-> uncommitted]
        list == block.minorBlockHeaderList
    IN  IF block.header.hashPrevBlock # GetHash(rc.chain[Len(rc.chain)])
        THEN fail("previous hash block mismatch")
        ELSE IF block.header.height # Len(rc.chain)
        THEN fail("height mismatch")
        ELSE IF block.header.hashCoinbaseTx # GetHash(block.coinbaseTx)
        THEN fail("coinbase tx hash mismatch")
        ELSE IF ~CheckCoinbaseTx(block.coinbaseTx, block.header.height)
        THEN fail("incorrect coinbase tx")
        ELSE IF CalculateMerkleRoot(list) # block.header.hashMerkleRoot
        THEN fail("incorrect merkle root")
        ELSE IF ~SKIP_ROOT_DIFFICULTY_CHECK
        THEN fail("insufficient difficulty")
        ELSE IF CheckMinorHeaders(block, uncommitted, 1) # None
        THEN fail(CheckMinorHeaders(block, uncommitted, 1))
        ELSE
        LET prevBlock == DbGetRootBlockByHash(d, block.header.hashPrevBlock)
            last == LastBlockHashList(prevBlock)
        IN  IF last.result # None
            THEN fail(last.result)
            ELSE IF Len(list) = 0
            THEN fail("raise IndexError")
            ELSE IF list[1].branch.shardId # 0
            THEN fail("first minor block header must start from shard 0")
            ELSE IF list[1].hashPrevMinorBlock # last.lastBlockHashList[1]
            THEN fail("first minor block in shard doesn't link to previous one in previous root block")
            ELSE
            LET walk == WalkMinorHeaders(list, 2, 0, list[1], 1,
                                         last.lastBlockHashList, pop)
            IN  IF walk.result # None
                THEN fail(walk.result)
                ELSE IF walk.shardId # block.header.shardInfo.shardSize - 1
                THEN fail("fail to prove progress")
                ELSE IF walk.blockCountInShard < pop
                THEN fail("fail to prove progress")
                ELSE IF block.coinbaseTx.outList[1].quarkash > TotalMinorCoinbase(d, list)
                THEN fail("incorrect coinbase quarkash")
                ELSE LET rm == RemoveUncommitted(uncommitted, list, 1)
                     IN  [result |-> rm.result,
                          rootChain |-> [rc EXCEPT
                              !.blockPool = DictPut(@, GetHash(block.header), block.header),
                              !.chain = Append(@, block.header)],
                          db |-> DbPutRootBlock(d, block),
                          uncommitted |-> rm.uncommitted]

(***************************************************************************)
(* QuarkChainState.  A world is the coordinator's state:                   *)
(* [shardList, rootChain, uncommitted, db].                                *)
(***************************************************************************)
QuarkChainStateInit ==
    LET rc == RootChainInit(GenesisRootBlock)
        d0 == [tx |-> EmptyDict, txRootBlockHeader |-> EmptyDict,
               mblock |-> EmptyDict,
               rblock |-> DictPut(EmptyDict, GetHash(GenesisRootBlock.header),
                                  GenesisRootBlock)]
        PutGenesis[n \in 0..ShardSize] ==
            IF n = 0 THEN d0
            ELSE DbPutTx(PutGenesis[n - 1], GenesisMinorBlock(n - 1).txList[1],
                         GenesisRootHeader)
    IN  [shardList |-> [s \in Shards |->
                           ShardStateInit(GenesisMinorBlock(s), GenesisRootBlock.header)],
         rootChain |-> rc,
         uncommitted |-> {},
         db |-> PutGenesis[ShardSize]]

RECURSIVE Flatten(_)
Flatten(ss) == IF ss = <<>> THEN <<>> ELSE ss[1] \o Flatten(Tail(ss))

\* The outputs that __addCrossShardTxFrom and __removeCrossShardTxFrom visit
\* without "continue", in the order of the two loops.
CrossShardOutputs(mBlock, shardSize) ==
    LET ofTx(tx) ==
            SelectSeq([i \in 1..Len(tx.outList) |->
                          [shardId |-> BitAnd(tx.outList[i].fullShardId, shardSize - 1),
                           txInput |-> TransactionInput(GetHash(tx), i - 1),
                           txOutput |-> tx.outList[i]]],
                      LAMBDA o : o.shardId # mBlock.header.branch.shardId)
    IN  Flatten([t \in 1..(Len(mBlock.txList) - 1) |-> ofTx(mBlock.txList[t + 1])])

\* The calls of addCrossShardUtxo for the outputs from position i on.
RECURSIVE AddCrossShardLoop(_, _, _, _)
AddCrossShardLoop(shards, outs, i, rootBlockHeader) ==
    IF i > Len(outs) THEN [result |-> None, shardList |-> shards]
    ELSE IF outs[i].shardId \notin DOMAIN shards
    THEN [result |-> "raise IndexError", shardList |-> shards]
    ELSE LET r == AddCrossShardUtxo(shards[outs[i].shardId], outs[i].txInput,
                                    UtxoValue(outs[i].txOutput.recipient,
                                              outs[i].txOutput.quarkash,
                                              rootBlockHeader))
         IN  IF r.result # None THEN [result |-> r.result, shardList |-> shards]
             ELSE AddCrossShardLoop([shards EXCEPT ![outs[i].shardId] = r.shard],
                                    outs, i + 1, rootBlockHeader)

\* QuarkChainState.__addCrossShardTxFrom
AddCrossShardTxFrom(shards, mBlock, rBlock) ==
    AddCrossShardLoop(shards, CrossShardOutputs(mBlock, Cardinality(DOMAIN shards)),
                      1, rBlock.header)

\* The calls of removeCrossShardUtxo for the outputs from position i on.
RECURSIVE RemoveCrossShardLoop(_, _, _)
RemoveCrossShardLoop(shards, outs, i) ==
    IF i > Len(outs) THEN [result |-> None, shardList |-> shards]
    ELSE IF outs[i].shardId \notin DOMAIN shards
    THEN [result |-> "raise IndexError", shardList |-> shards]
    ELSE LET r == RemoveCrossShardUtxo(shards[outs[i].shardId], outs[i].txInput)
         IN  IF r.result # None THEN [result |-> r.result, shardList |-> shards]
             ELSE RemoveCrossShardLoop([shards EXCEPT ![outs[i].shardId] = r.shard],
                                       outs, i + 1)

\* QuarkChainState.__removeCrossShardTxFrom
RemoveCrossShardTxFrom(shards, mBlock) ==
    RemoveCrossShardLoop(shards, CrossShardOutputs(mBlock, Cardinality(DOMAIN shards)), 1)

\* An appendMinorBlock that records the header before it asks the shard.
AppendMinorBlockEager(w, mBlock) ==
    IF mBlock.header.branch.shardSize # Cardinality(DOMAIN w.shardList)
    THEN [result |-> "minor block shard size is too large", world |-> w]
    ELSE IF mBlock.header.branch.shardId \notin DOMAIN w.shardList
    THEN [result |-> "raise IndexError", world |-> w]
    ELSE LET shardId == mBlock.header.branch.shardId
             r == ShardAppendBlock(w.shardList[shardId], w.rootChain, w.db, mBlock)
         IN  [result |-> r.result,
              world |-> [w EXCEPT !.shardList[shardId] = r.shard, !.db = r.db,
                                  !.uncommitted = @ \cup {mBlock.header}]]

\* An appendMinorBlock that does not record the header of the accepted block.
AppendMinorBlockUnrecorded(w, mBlock) ==
    IF mBlock.header.branch.shardSize # Cardinality(DOMAIN w.shardList)
    THEN [result |-> "minor block shard size is too large", world |-> w]
    ELSE IF mBlock.header.branch.shardId \notin DOMAIN w.shardList
    THEN [result |-> "raise IndexError", world |-> w]
    ELSE LET shardId == mBlock.header.branch.shardId
             r == ShardAppendBlock(w.shardList[shardId], w.rootChain, w.db, mBlock)
         IN  [result |-> r.result,
              world |-> [w EXCEPT !.shardList[shardId] = r.shard, !.db = r.db]]

\* QuarkChainState.appendMinorBlock: [result, world].
AppendMinorBlock(w, mBlock) ==
    IF mBlock.header.branch.shardSize # Cardinality(DOMAIN w.shardList)
    THEN [result |-> "minor block shard size is too large", world |-> w]
    ELSE IF mBlock.header.branch.shardId \notin DOMAIN w.shardList
    THEN [result |-> "raise IndexError", world |-> w]
    ELSE LET shardId == mBlock.header.branch.shardId
             r == ShardAppendBlock(w.shardList[shardId], w.rootChain, w.db, mBlock)
             w1 == [w EXCEPT !.shardList[shardId] = r.shard, !.db = r.db]
         IN  IF r.result # None
             THEN [result |-> r.result, world |-> w1]
             ELSE [result |-> None,
                   world |-> [w1 EXCEPT !.uncommitted = @ \cup {mBlock.header}]]

\* shardList[shardId] of a Python list of n shards: a negative index counts
\* from the end, and an index outside -n .. n-1 raises IndexError.
ListIndex(n, shardId) ==
    IF shardId >= 0 /\ shardId < n THEN shardId
    ELSE IF shardId < 0 /\ shardId >= -n THEN n + shardId
    ELSE -1

\* "shard.tip in uncommittedMinorBlockHeaderSet": shard.tip is the bound
\* method ShardState.tip, not a header, and is an element of no header set.
ShardTipInSet(shard, uncommitted) == FALSE

\* QuarkChainState.rollBackMinorBlock: [result, world].
RollBackMinorBlock(w, shardId) ==
    LET n == Cardinality(DOMAIN w.shardList)
    IN  IF shardId > n
        THEN [result |-> "shard id is too large", world |-> w]
        ELSE IF ListIndex(n, shardId) < 0
        THEN [result |-> "raise IndexError", world |-> w]
        ELSE LET at == ListIndex(n, shardId)
                 shard == w.shardList[at]
             IN  IF ~ShardTipInSet(shard, w.uncommitted)
                 THEN [result |-> "the minor block is commited by root block", world |-> w]
                 ELSE LET r == ShardRollBackTip(shard, w.db)
                      IN  [result |-> r.result,
                           world |-> [w EXCEPT !.shardList[at] = r.shard]]

\* for mHeader in rBlock.minorBlockHeaderList: __addCrossShardTxFrom, from
\* position i on.
RECURSIVE AppendRootBlockDeliver(_, _, _, _)
AppendRootBlockDeliver(shards, d, rBlock, i) ==
    IF i > Len(rBlock.minorBlockHeaderList) THEN [result |-> None, shardList |-> shards]
    ELSE LET mBlock == DbGetMinorBlockByHash(d, GetHash(rBlock.minorBlockHeaderList[i]))
             r == AddCrossShardTxFrom(shards, mBlock, rBlock)
         IN  IF r.result # None THEN r
             ELSE AppendRootBlockDeliver(r.shardList, d, rBlock, i + 1)

\* QuarkChainState.appendRootBlock: [result, world].
AppendRootBlock(w, rBlock, pop) ==
    LET a == RootChainAppendBlock(w.rootChain, w.db, w.uncommitted, rBlock, pop)
        w1 == [w EXCEPT !.rootChain = a.rootChain, !.db = a.db,
                        !.uncommitted = a.uncommitted]
    IN  IF a.result # None
        THEN [result |-> a.result, world |-> w1]
        ELSE LET del == AppendRootBlockDeliver(w.shardList, a.db, rBlock, 1)
             IN  [result |-> del.result, world |-> [w1 EXCEPT !.shardList = del.shardList]]

\* "self.rootChain.tip()": the attribute tip is a RootBlock, and calling it
\* raises TypeError.
RootChainTipCall(rc) == [result |-> "raise TypeError", header |-> rc.chain[Len(rc.chain)]]

\* A rollBackRootBlock that goes straight to RootChain.rollBack.
RollBackRootBlockUnguarded(w) ==
    LET r == RootChainRollBack(w.rootChain)
    IN  [result |-> r.result, world |-> [w EXCEPT !.rootChain = r.rootChain]]

\* QuarkChainState.rollBackRootBlock: [result, world].  The first statement
\* raises; the second calls gethHash, a method no header has.
RollBackRootBlock(w) ==
    LET t == RootChainTipCall(w.rootChain)
    IN  IF t.result # None
        THEN [result |-> t.result, world |-> w]
        ELSE [result |-> "raise AttributeError", world |-> w]

(***************************************************************************)
(* The blocks and transactions that callers submit.                        *)
(***************************************************************************)
World ==
    [shardList |-> shardList, rootChain |-> rootChain,
     uncommitted |-> uncommittedMinorBlockHeaderSet, db |-> db]

SeqsUpTo(S, n) == UNION {[1..m -> S] : m \in 0..n}

\* Non-coinbase transactions the database has seen.
TxUsed == Cardinality({h \in DOMAIN db.tx : db.tx[h].code = TxCode})

\* Every output of a recorded transaction that is addressed to shard s:
\* unspent, spent, or not delivered yet.
KnownInputs(d, s) ==
    UNION {{TransactionInput(h, i - 1) :
               i \in {j \in 1..Len(d.tx[h].outList) :
                         d.tx[h].outList[j].fullShardId % ShardSize = s}} :
           h \in DOMAIN d.tx}
InputRecipient(d, k) == d.tx[k.hash].outList[k.index + 1].recipient

TxOutputs ==
    {TransactionOutput("bob", f, q) : f \in Shards, q \in 1..MaxQuarkash}
TxOutLists ==
    {<<o>> : o \in TxOutputs} \cup {<<o, o>> : o \in TxOutputs}

SignedTx(d, inList, outList) ==
    Transaction(inList, TxCode, outList,
                [i \in 1..Len(inList) |-> InputRecipient(d, inList[i])])

\* Transactions that spend an input of the pool and carry no signature.
UnsignedTxCands(s, utxoPool) ==
    {Transaction(<<k>>, TxCode, <<TransactionOutput("bob", s, 1)>>, <<>>) :
        k \in DOMAIN utxoPool}

\* Transactions offered to shard s: signed by the owners of their inputs, one
\* known input to one or two outputs, two inputs of the pool (or one, twice)
\* to one output, an input of another shard; and the unsigned ones.
TxCands(d, s, utxoPool) ==
    {SignedTx(d, <<k>>, outList) : k \in KnownInputs(d, s), outList \in TxOutLists}
    \cup {SignedTx(d, <<k1, k2>>, <<TransactionOutput("bob", s, 1)>>) :
            k1 \in DOMAIN utxoPool, k2 \in DOMAIN utxoPool}
    \cup {SignedTx(d, <<k>>, <<TransactionOutput("bob", s, 1)>>) :
            k \in KnownInputs(d, (s + 1) % ShardSize)}
    \cup UnsignedTxCands(s, utxoPool)

\* Lists of at most n valid transactions; a list ends at its first invalid one.
RECURSIVE TxListCands(_, _, _, _, _)
TxListCands(d, s, utxoPool, rootBlockHeader, n) ==
    IF n = 0 THEN {<<>>} \cup {<<tx>> : tx \in UnsignedTxCands(s, utxoPool)}
    ELSE {<<>>} \cup UNION {
        LET r == PerformTx(utxoPool, Branch(ShardSize, s), d, tx, rootBlockHeader)
        IN  IF r.fee < 0 THEN {<<tx>>}
            ELSE {<<tx>> \o rest :
                    rest \in TxListCands(r.db, s, r.utxoPool, rootBlockHeader, n - 1)}
        : tx \in TxCands(d, s, utxoPool)}

MinorCoinbaseTx(s, height) ==
    Transaction(<<>>, CreateMinorBlockCoinbaseCode(height),
                <<TransactionOutput("alice", s, 1)>>, <<>>)

MinorBlock(s, height, hashPrevMinorBlock, hashPrevRootBlock, txList) ==
    [header |-> [height |-> height, hashPrevMinorBlock |-> hashPrevMinorBlock,
                 hashPrevRootBlock |-> hashPrevRootBlock,
                 hashMerkleRoot |-> CalculateMerkleRoot(txList),
                 branch |-> Branch(ShardSize, s)],
     txList |-> txList]

\* Well-formed successors of the tip of shard s.
GoodMinorBlocks(s) ==
    LET tip == shardList[s].chain[Len(shardList[s].chain)]
        n == IF MaxTxTotal - TxUsed < MaxTxPerBlock THEN MaxTxTotal - TxUsed
             ELSE MaxTxPerBlock
    IN  UNION {{MinorBlock(s, tip.header.height + 1, GetHash(tip.header), hr,
                           <<MinorCoinbaseTx(s, tip.header.height + 1)>> \o txs) :
                   txs \in TxListCands(db, s, shardList[s].utxoPool,
                                       rootChain.blockPool[hr], n)} :
               hr \in DOMAIN rootChain.blockPool}

\* One block for each check of appendBlock that a block can fail.
BadMinorBlocks(s) ==
    LET tip == shardList[s].chain[Len(shardList[s].chain)]
        hp == GetHash(tip.header)
        hr == GetHash(rootChain.chain[Len(rootChain.chain)])
        ht == tip.header.height + 1
        cb == MinorCoinbaseTx(s, ht)
        good == MinorBlock(s, ht, hp, hr, <<cb>>)
    IN  {MinorBlock(s, ht, ZeroHash, hr, <<cb>>),
         MinorBlock(s, ht + 1, hp, hr, <<MinorCoinbaseTx(s, ht + 1)>>),
         [good EXCEPT !.header.hashMerkleRoot = CalculateMerkleRoot(<<>>)],
         MinorBlock(s, ht, hp, hr, <<>>),
         MinorBlock(s, ht, hp, hr,
                    <<[cb EXCEPT !.inList = <<TransactionInput(GetHash(cb), 0)>>]>>),
         MinorBlock(s, ht, hp, hr, <<[cb EXCEPT !.outList = @ \o @]>>),
         MinorBlock(s, ht, hp, hr,
                    <<[cb EXCEPT !.outList[1].fullShardId = (s + 1) % ShardSize]>>),
         MinorBlock(s, ht, hp, hr, <<[cb EXCEPT !.code = TxCode]>>),
         MinorBlock(s, ht, hp, ZeroHash, <<cb>>),
         [good EXCEPT !.header.branch.shardSize = 2 * ShardSize]}

MinorBlockCands(s) == GoodMinorBlocks(s) \cup BadMinorBlocks(s)

RootCoinbaseTx(height, quarkash) ==
    Transaction(<<>>, CreateRootBlockCoinbaseCode(height),
                <<TransactionOutput("alice", 0, quarkash)>>, <<>>)

RootBlock(height, hashPrevBlock, shardSize, coinbaseTx, minorBlockHeaderList) ==
    [header |-> [height |-> height, hashPrevBlock |-> hashPrevBlock,
                 hashMerkleRoot |-> CalculateMerkleRoot(minorBlockHeaderList),
                 hashCoinbaseTx |-> GetHash(coinbaseTx),
                 shardInfo |-> [shardSize |-> shardSize]],
     coinbaseTx |-> coinbaseTx,
     minorBlockHeaderList |-> minorBlockHeaderList]

\* Headers on the shard chains that are not uncommitted: the genesis headers
\* and the committed tips.
CommittedHeaderCands ==
    UNION {{shardList[s].chain[1].header,
            shardList[s].chain[Len(shardList[s].chain)].header} : s \in Shards}
    \ uncommittedMinorBlockHeaderSet

\* The sum of the coinbase outputs of the blocks of the listed headers.
CoinbaseOf(list) ==
    SumSeq([i \in 1..Len(list) |-> db.mblock[GetHash(list[i])].txList[1].outList[1].quarkash])

\* Successors of the root tip: over every short list of uncommitted headers,
\* with a coinbase that takes all of the minor coinbases (and, for the lists
\* of one header per shard at most, one more); that list a header which is
\* not uncommitted; and that declare another shard size.
GoodRootBlocks ==
    LET tip == rootChain.chain[Len(rootChain.chain)]
        ht == tip.height + 1
        hp == GetHash(tip)
        U == uncommittedMinorBlockHeaderSet
    IN  {RootBlock(ht, hp, ShardSize, RootCoinbaseTx(ht, CoinbaseOf(list)), list) :
            list \in SeqsUpTo(U, MaxRootHeaders)}
        \cup {RootBlock(ht, hp, ShardSize, RootCoinbaseTx(ht, CoinbaseOf(list) + 1), list) :
                list \in SeqsUpTo(U, ShardSize)}
        \cup {RootBlock(ht, hp, ShardSize, RootCoinbaseTx(ht, 0), <<h>>) :
                h \in CommittedHeaderCands}
        \cup {RootBlock(ht, hp, 2 * ShardSize, RootCoinbaseTx(ht, 0), <<h>> \o rest) :
                h \in U, rest \in {<<>>} \cup {<<g>> : g \in CommittedHeaderCands}}

\* One block for each of the first checks of RootChain.appendBlock.
BadRootBlocks ==
    LET tip == rootChain.chain[Len(rootChain.chain)]
        ht == tip.height + 1
        hp == GetHash(tip)
        cb == RootCoinbaseTx(ht, 0)
        good == RootBlock(ht, hp, ShardSize, cb, <<>>)
    IN  {RootBlock(ht, ZeroHash, ShardSize, cb, <<>>),
         RootBlock(ht + 1, hp, ShardSize, RootCoinbaseTx(ht + 1, 0), <<>>),
         [good EXCEPT !.header.hashCoinbaseTx = ZeroHash],
         RootBlock(ht, hp, ShardSize, [cb EXCEPT !.code = TxCode], <<>>),
         RootBlock(ht, hp, ShardSize, [cb EXCEPT !.outList = @ \o @], <<>>),
         RootBlock(ht, hp, ShardSize,
                   [cb EXCEPT !.inList = <<TransactionInput(GetHash(cb), 0)>>], <<>>),
         [good EXCEPT !.header.hashMerkleRoot = ZeroHash]}

RootBlockCands == GoodRootBlocks \cup BadRootBlocks

(***************************************************************************)
(* cluster/miner.py: the Miner, the worker process it starts and the       *)
(* coroutine that hands the mined blocks on.  A queue item (block,         *)
(* mining_params) is modelled by its block, the parameters only set the    *)
(* pace.  The worker and the handler are at the line their field names.    *)
(***************************************************************************)
MineFuncs == {"simulate_mine", "mine_ethash"}

\* The block the n-th call of create_block_async_func makes.
CreatedBlock(n) == "block" \o ToString(n)

FalsyNever(block) == FALSE

\* "not block"
Falsy(block) == block = None

MinerInit(mine_func) ==
    [mine_func    |-> mine_func,
     enabled      |-> FALSE,
     process      |-> None,
     input_q      |-> <<>>,
     output_q     |-> <<>>,
     creating     |-> 0,       \* mine_new_block coroutines awaiting create_block_async_func
     created      |-> 0,       \* calls of create_block_async_func that returned
     workerPc     |-> "not started",
     workerBlock  |-> None,    \* the local "block" of the worker
     handlerPc    |-> "not started",
     handlerBlock |-> None,    \* the local "block" of handle_mined_block
     added        |-> <<>>,    \* the arguments of the calls of add_block_async_func
     \* History of the calls, no field of the Miner: disable() was called
     \* while the worker was running, and the blocks mined by then.
     disabledWhileRunning |-> FALSE,
     minedAtDisable       |-> 0,
     \* History as well: the worker processes started so far.
     processesStarted     |-> 0]

Enable(m) == [m EXCEPT !.enabled = TRUE]

\* The worker process has been started and has neither returned nor raised.
WorkerRunning(m) == m.workerPc \notin {"not started", "done", "raise AttributeError"}

\* The blocks the worker has put on the output queue so far: those still in
\* it, the one the handler holds and those handed to add_block_async_func.
MinedSoFar(m) ==
    Cardinality({i \in 1..Len(m.output_q) : m.output_q[i] # None})
    + (IF m.handlerPc = "L79" THEN 1 ELSE 0)
    + Len(m.added)

\* disable: the flag is cleared, and nothing else is done.
Disable(m) ==
    [m EXCEPT !.enabled = FALSE,
              !.disabledWhileRunning = @ \/ WorkerRunning(m),
              !.minedAtDisable = IF ~m.disabledWhileRunning /\ WorkerRunning(m)
                                 THEN MinedSoFar(m) ELSE @]

\* mine_new_block_async: nothing when disabled, else a mine_new_block
\* coroutine is scheduled.
MineNewBlockAsync(m) ==
    IF ~m.enabled THEN m ELSE [m EXCEPT !.creating = @ + 1]

\* A mine_new_block that starts a process for every block.
MineNewBlockProcessPerBlock(m, block) ==
    [m EXCEPT !.creating = @ - 1,
              !.created = @ + 1,
              !.process = "started",
              !.processesStarted = @ + 1,
              !.workerPc = IF m.mine_func = "simulate_mine" THEN "L152" ELSE "L194",
              !.workerBlock = block,
              !.handlerPc = "L75"]

\* mine_new_block once create_block_async_func has returned block: the block
\* goes to the process when there is one, else the process is started on it
\* and the coroutine goes on as handle_mined_block.
MineNewBlock(m, block) ==
    LET got == [m EXCEPT !.creating = @ - 1, !.created = @ + 1]
    IN  IF got.process # None
        THEN [got EXCEPT !.input_q = Append(@, block)]
        ELSE [got EXCEPT !.process = "started",
                         !.processesStarted = @ + 1,
                         !.workerPc = IF got.mine_func = "simulate_mine" THEN "L152" ELSE "L194",
                         !.workerBlock = block,
                         !.handlerPc = "L75"]

\* simulate_mine, line 152: block.header of the first block.
SimulateMineStart(m) ==
    IF m.workerBlock = None
    THEN [m EXCEPT !.workerPc = "raise AttributeError"]
    ELSE [m EXCEPT !.workerPc = "L159"]

\* simulate_mine, lines 157-168: the poll of the input queue.
SimulateMineGetNowait(m) ==
    IF m.input_q = <<>>
    THEN [m EXCEPT !.workerPc = "L169"]
    ELSE [m EXCEPT !.workerBlock = Head(m.input_q),
                   !.input_q = Tail(@),
                   !.workerPc = IF Falsy(Head(m.input_q)) THEN "L161" ELSE "L169"]

\* simulate_mine, lines 161-162 and 176-177; mine_ethash, lines 195-196.
WorkerPutNone(m) ==
    [m EXCEPT !.output_q = Append(@, None), !.workerPc = "done"]

\* simulate_mine, lines 169-173: the block is put out once its time has come.
SimulateMineTimeCheck(m, timeIsUp) ==
    IF timeIsUp
    THEN [m EXCEPT !.output_q = Append(@, m.workerBlock), !.workerPc = "L174"]
    ELSE [m EXCEPT !.workerPc = "L159"]

\* simulate_mine, lines 174-180: the blocking get, input_q is not empty.
SimulateMineGet(m) ==
    [m EXCEPT !.workerBlock = Head(m.input_q),
              !.input_q = Tail(@),
              !.workerPc = IF Falsy(Head(m.input_q)) THEN "L176" ELSE "L159"]

\* mine_ethash, lines 192-203: the head of the outer loop.
MineEthashOuter(m) ==
    IF Falsy(m.workerBlock) THEN WorkerPutNone(m) ELSE [m EXCEPT !.workerPc = "L205"]

\* mine_ethash, lines 205-211: one round of nonces.
MineEthashMine(m, nonce_found) ==
    IF nonce_found
    THEN [m EXCEPT !.output_q = Append(@, m.workerBlock), !.workerPc = "L211"]
    ELSE [m EXCEPT !.workerPc = "L215"]

\* mine_ethash, lines 211-212: the blocking get, input_q is not empty.
MineEthashGet(m) ==
    [m EXCEPT !.workerBlock = Head(m.input_q), !.input_q = Tail(@), !.workerPc = "L194"]

\* mine_ethash, lines 214-220: the poll of the input queue.
MineEthashGetNowait(m) ==
    IF m.input_q = <<>>
    THEN [m EXCEPT !.workerPc = "L205"]
    ELSE MineEthashGet(m)

\* handle_mined_block, lines 75-77: output_q is not empty.
HandleMinedBlockGet(m) ==
    IF Falsy(Head(m.output_q))
    THEN [m EXCEPT !.output_q = Tail(@), !.handlerPc = "returned"]
    ELSE [m EXCEPT !.output_q = Tail(@), !.handlerBlock = Head(m.output_q),
                   !.handlerPc = "L79"]

\* handle_mined_block, lines 78-82: add_block_async_func is called and, when
\* it raises, mine_new_block_async.
HandleMinedBlockAdd(m, raised) ==
    LET called == [m EXCEPT !.added = Append(@, m.handlerBlock), !.handlerPc = "L75"]
    IN  IF raised THEN MineNewBlockAsync(called) ELSE called

(***************************************************************************)
(* The state machine: the four operations of QuarkChainState.              *)
(***************************************************************************)
SetWorld(w) ==
    /\ shardList' = w.shardList
    /\ rootChain' = w.rootChain
    /\ uncommittedMinorBlockHeaderSet' = w.uncommitted
    /\ db' = w.db
    /\ UNCHANGED <<proofOfProgressBlocks, miner>>

\* The ledger after QuarkChainState.__init__.
LedgerInit ==
    /\ shardList = QuarkChainStateInit.shardList
    /\ rootChain = QuarkChainStateInit.rootChain
    /\ uncommittedMinorBlockHeaderSet = QuarkChainStateInit.uncommitted
    /\ db = QuarkChainStateInit.db
    /\ proofOfProgressBlocks \in 1..MaxProofOfProgress

\* Miner.__init__ admits POW_SIMULATE alone (the check of line 37).
Init ==
    /\ LedgerInit
    /\ miner = MinerInit("simulate_mine")

CallAppendMinorBlock ==
    \E s \in Shards :
        /\ Len(shardList[s].chain) <= MaxMinorHeight
        /\ \E mBlock \in MinorBlockCands(s) :
              SetWorld(AppendMinorBlock(World, mBlock).world)

CallRollBackMinorBlock ==
    \E shardId \in (-1)..(ShardSize + 1) :
        SetWorld(RollBackMinorBlock(World, shardId).world)

CallAppendRootBlock ==
    /\ Len(rootChain.chain) <= MaxRootHeight
    /\ \E rBlock \in RootBlockCands :
          SetWorld(AppendRootBlock(World, rBlock, proofOfProgressBlocks).world)

CallRollBackRootBlock ==
    SetWorld(RollBackRootBlock(World).world)

Next ==
    \/ CallAppendMinorBlock
    \/ CallRollBackMinorBlock
    \/ CallAppendRootBlock
    \/ CallRollBackRootBlock

Spec == Init /\ [][Next]_vars

\* The accepted minor blocks that are on no chain now.
RolledBackBlocks ==
    {h \in DOMAIN db.mblock :
        \A s \in Shards : \A i \in 1..Len(shardList[s].chain) :
            shardList[s].chain[i] # db.mblock[h]}

\* A caller that holds a shard calls its rollBackTip directly.
CallShardRollBackTip ==
    \E s \in Shards :
        /\ Cardinality(RolledBackBlocks) < MaxRolledBack
        /\ shardList' = [shardList EXCEPT ![s] = ShardRollBackTip(shardList[s], db).shard]
        /\ UNCHANGED <<rootChain, uncommittedMinorBlockHeaderSet, db, proofOfProgressBlocks,
                       miner>>

\* An appendMinorBlock that succeeds.
CallAppendAcceptedMinorBlock ==
    \E s \in Shards :
        /\ Len(shardList[s].chain) <= MaxMinorHeight
        /\ \E mBlock \in GoodMinorBlocks(s) :
              /\ AppendMinorBlock(World, mBlock).result = None
              /\ SetWorld(AppendMinorBlock(World, mBlock).world)

NextShard ==
    \/ CallAppendAcceptedMinorBlock
    \/ CallShardRollBackTip

SpecShard == Init /\ [][NextShard]_vars

(***************************************************************************)
(* The miner: the calls of its owner, the steps of the worker process and  *)
(* the steps of the handler coroutine, interleaved.                        *)
(***************************************************************************)
SetMiner(m) ==
    /\ miner' = m
    /\ UNCHANGED <<shardList, rootChain, uncommittedMinorBlockHeaderSet, db,
                   proofOfProgressBlocks>>

\* mine_ethash is a worker function as well, for an owner that sets it.
InitMiner ==
    /\ LedgerInit
    /\ \E mine_func \in MineFuncs : miner = MinerInit(mine_func)

CallEnable ==
    /\ ~miner.enabled
    /\ SetMiner(Enable(miner))

CallDisable ==
    /\ miner.enabled
    /\ SetMiner(Disable(miner))

CallMineNewBlockAsync ==
    /\ miner.creating < MaxPending
    /\ SetMiner(MineNewBlockAsync(miner))

\* create_block_async_func returns, a block or nothing.
CreateBlockReturns ==
    /\ miner.creating > 0
    /\ miner.created < MaxCreated
    /\ \E block \in {CreatedBlock(miner.created + 1), None} :
          SetMiner(MineNewBlock(miner, block))

WorkerSimulateMineStart ==
    /\ miner.workerPc = "L152"
    /\ SetMiner(SimulateMineStart(miner))

WorkerSimulateMineGetNowait ==
    /\ miner.workerPc = "L159"
    /\ SetMiner(SimulateMineGetNowait(miner))

WorkerSimulateMinePutNone ==
    /\ miner.workerPc \in {"L161", "L176"}
    /\ SetMiner(WorkerPutNone(miner))

WorkerSimulateMineTimeCheck ==
    /\ miner.workerPc = "L169"
    /\ \E timeIsUp \in BOOLEAN : SetMiner(SimulateMineTimeCheck(miner, timeIsUp))

WorkerSimulateMineGet ==
    /\ miner.workerPc = "L174"
    /\ miner.input_q # <<>>
    /\ SetMiner(SimulateMineGet(miner))

WorkerMineEthashOuter ==
    /\ miner.workerPc = "L194"
    /\ SetMiner(MineEthashOuter(miner))

WorkerMineEthashMine ==
    /\ miner.workerPc = "L205"
    /\ \E nonce_found \in BOOLEAN : SetMiner(MineEthashMine(miner, nonce_found))

WorkerMineEthashGet ==
    /\ miner.workerPc = "L211"
    /\ miner.input_q # <<>>
    /\ SetMiner(MineEthashGet(miner))

WorkerMineEthashGetNowait ==
    /\ miner.workerPc = "L215"
    /\ SetMiner(MineEthashGetNowait(miner))

HandlerGet ==
    /\ miner.handlerPc = "L75"
    /\ miner.output_q # <<>>
    /\ SetMiner(HandleMinedBlockGet(miner))

HandlerAdd ==
    /\ miner.handlerPc = "L79"
    /\ \E raised \in BOOLEAN :
          /\ raised => miner.creating < MaxPending
          /\ SetMiner(HandleMinedBlockAdd(miner, raised))

NextMiner ==
    \/ CallEnable
    \/ CallDisable
    \/ CallMineNewBlockAsync
    \/ CreateBlockReturns
    \/ WorkerSimulateMineStart
    \/ WorkerSimulateMineGetNowait
    \/ WorkerSimulateMinePutNone
    \/ WorkerSimulateMineTimeCheck
    \/ WorkerSimulateMineGet
    \/ WorkerMineEthashOuter
    \/ WorkerMineEthashMine
    \/ WorkerMineEthashGet
    \/ WorkerMineEthashGetNowait
    \/ HandlerGet
    \/ HandlerAdd

SpecMiner == InitMiner /\ [][NextMiner]_vars

\* The steps of the worker process.
WorkerStep ==
    \/ WorkerSimulateMineStart
    \/ WorkerSimulateMineGetNowait
    \/ WorkerSimulateMinePutNone
    \/ WorkerSimulateMineTimeCheck
    \/ WorkerSimulateMineGet
    \/ WorkerMineEthashOuter
    \/ WorkerMineEthashMine
    \/ WorkerMineEthashGet
    \/ WorkerMineEthashGetNowait

\* The worker is a process of its own, which the operating system keeps
\* running; the event loop resumes the handler whose coro_get has an item.
SpecMinerFair ==
    /\ SpecMiner
    /\ WF_vars(WorkerStep)
    /\ WF_vars(HandlerGet)

(***************************************************************************)
(* What the claims speak of.                                               *)
(***************************************************************************)
SeqToSet(list) == {list[i] : i \in 1..Len(list)}

\* The non-genesis blocks on the chain of shard s.
BlocksOnChain(s) == {shardList[s].chain[i] : i \in 2..Len(shardList[s].chain)}

\* The root blocks whose headers are on the root chain.
RootBlocksOnChain == {db.rblock[GetHash(rootChain.chain[i])] : i \in 1..Len(rootChain.chain)}

\* The headers embedded by the root blocks on the root chain.
EmbeddedHeaders == UNION {SeqToSet(rb.minorBlockHeaderList) : rb \in RootBlocksOnChain}

\* The sum of the amounts of all inputs of tx, as the pool records them.
AllInputsQuarkash(utxoPool, tx) ==
    SumSeq([i \in 1..Len(tx.inList) |-> utxoPool[tx.inList[i]].quarkash])

\* The inputs consumed by the transactions of the blocks on the chain of shard s.
SpentOnChain(s) ==
    UNION {UNION {SeqToSet(b.txList[t].inList) : t \in 2..Len(b.txList)} :
           b \in BlocksOnChain(s)}

\* C1: when ShardState.appendBlock returns an error, the pool and the chain of
\* the shard are what they were before the call.
C1_AppendBlockErrorLeavesShard ==
    \A s \in Shards : \A block \in MinorBlockCands(s) :
        LET r == ShardAppendBlock(shardList[s], rootChain, db, block)
        IN  r.result # None =>
                /\ r.shard.utxoPool = shardList[s].utxoPool
                /\ r.shard.chain = shardList[s].chain

\* C2: a transaction is accepted only when its outputs sum to at most the sum
\* of all of its inputs, and the fee reported is that difference.
C2_FeeIsInputsMinusOutputs ==
    \A s \in Shards : \A tx \in TxCands(db, s, shardList[s].utxoPool) :
        \A h \in DOMAIN rootChain.blockPool :
            LET r == PerformTx(shardList[s].utxoPool, shardList[s].branch, db, tx,
                               rootChain.blockPool[h])
            IN  r.fee >= 0 =>
                    /\ TxOutputQuarkash(tx) <= AllInputsQuarkash(shardList[s].utxoPool, tx)
                    /\ r.fee = AllInputsQuarkash(shardList[s].utxoPool, tx)
                               - TxOutputQuarkash(tx)

\* C3: appendBlock(b) that succeeds, followed by rollBackTip(), succeeds and
\* leaves the chain and the pool of the shard as they were before the append.
C3_AppendThenRollBackTipRestores ==
    \A s \in Shards : \A block \in MinorBlockCands(s) :
        LET a == ShardAppendBlock(shardList[s], rootChain, db, block)
            r == ShardRollBackTip(a.shard, a.db)
        IN  a.result = None =>
                /\ r.result = None
                /\ r.shard.chain = shardList[s].chain
                /\ r.shard.utxoPool = shardList[s].utxoPool

\* C4: appendRootBlock(r) that succeeds, followed by rollBackRootBlock(),
\* succeeds and leaves the root chain, the uncommitted set and every pool as
\* they were before the append.
C4_AppendThenRollBackRootRestores ==
    \A rBlock \in RootBlockCands :
        LET a == AppendRootBlock(World, rBlock, proofOfProgressBlocks)
            r == RollBackRootBlock(a.world)
        IN  a.result = None =>
                /\ r.result = None
                /\ r.world.rootChain.chain = rootChain.chain
                /\ r.world.rootChain.blockPool = rootChain.blockPool
                /\ r.world.uncommitted = uncommittedMinorBlockHeaderSet
                /\ \A s \in Shards : r.world.shardList[s].utxoPool = shardList[s].utxoPool

\* C5: an output of a non-coinbase transaction of a block on a shard chain that
\* is addressed to another shard, and that no block on the chain of that shard
\* spends, is in the pool of that shard exactly when a root block on the root
\* chain embeds the header of its block, and then with the header of that root block.
C5_CrossShardUtxoIffCommitted ==
    \A s \in Shards : \A b \in BlocksOnChain(s) : \A t \in 2..Len(b.txList) :
        \A i \in 1..Len(b.txList[t].outList) :
            LET dest == b.txList[t].outList[i].fullShardId % ShardSize
                key == TransactionInput(GetHash(b.txList[t]), i - 1)
                committing == {rb \in RootBlocksOnChain :
                                  b.header \in SeqToSet(rb.minorBlockHeaderList)}
            IN  (dest # s /\ key \notin SpentOnChain(dest)) =>
                    /\ key \in DOMAIN shardList[dest].utxoPool <=> committing # {}
                    /\ key \in DOMAIN shardList[dest].utxoPool =>
                          \E rb \in committing :
                              shardList[dest].utxoPool[key].rootBlockHeader = rb.header

\* C6: rollBackMinorBlock of a shard whose tip is not the genesis succeeds
\* exactly when the header of the tip is in the uncommitted set.
C6_RollBackMinorIffUncommitted ==
    \A s \in Shards :
        Len(shardList[s].chain) > 1 =>
            (RollBackMinorBlock(World, s).result = None
                <=> shardList[s].chain[Len(shardList[s].chain)].header
                        \in uncommittedMinorBlockHeaderSet)

\* C7: the uncommitted set holds exactly the headers of the non-genesis blocks
\* on the shard chains that no root block on the root chain embeds.
C7_UncommittedIsChainMinusEmbedded ==
    uncommittedMinorBlockHeaderSet =
        UNION {{b.header : b \in BlocksOnChain(s)} : s \in Shards} \ EmbeddedHeaders

C7_Witness ==
    /\ Len(rootChain.chain) > 1
    /\ uncommittedMinorBlockHeaderSet # {}
    /\ \E s \in Shards : \E b \in BlocksOnChain(s) : b.header \in EmbeddedHeaders

\* C8: rollBackRootBlock of a root chain whose tip is not the genesis succeeds
\* exactly when no uncommitted header names the tip as its previous root
\* block; when one does, it returns the error and changes nothing.
C8_RollBackRootIffUnused ==
    Len(rootChain.chain) > 1 =>
        LET r == RollBackRootBlock(World)
            used == \E h \in uncommittedMinorBlockHeaderSet :
                        h.hashPrevRootBlock = GetHash(rootChain.chain[Len(rootChain.chain)])
        IN  /\ r.result = None <=> ~used
            /\ used => /\ r.result = "the root block is used by uncommitted minor blocks"
                       /\ r.world = World

\* C9: appendRootBlock accepts a root block only if every header it embeds is
\* in the uncommitted set; no header is embedded twice by the root blocks on
\* the chain, and no embedded header is in the uncommitted set.
C9_EmbeddedOnceAndNotUncommitted ==
    /\ \A rBlock \in RootBlockCands :
          AppendRootBlock(World, rBlock, proofOfProgressBlocks).result = None =>
              SeqToSet(rBlock.minorBlockHeaderList) \subseteq uncommittedMinorBlockHeaderSet
    /\ \A rb \in RootBlocksOnChain :
          /\ \A i, j \in 1..Len(rb.minorBlockHeaderList) :
                rb.minorBlockHeaderList[i] = rb.minorBlockHeaderList[j] => i = j
          /\ \A other \in RootBlocksOnChain \ {rb} :
                SeqToSet(rb.minorBlockHeaderList) \cap SeqToSet(other.minorBlockHeaderList) = {}
    /\ EmbeddedHeaders \cap uncommittedMinorBlockHeaderSet = {}

\* Two root blocks were accepted, and a block is on a shard chain whose header
\* the root chain embeds.
C9_Witness ==
    /\ Len(rootChain.chain) = 3
    /\ \E s \in Shards : \E b \in BlocksOnChain(s) : b.header \in EmbeddedHeaders

\* C10: an accepted root block embeds at least PROOF_OF_PROGRESS_BLOCKS headers
\* of each shard.
C10_ProgressPerShard ==
    \A rBlock \in RootBlockCands :
        AppendRootBlock(World, rBlock, proofOfProgressBlocks).result = None =>
            \A s \in Shards :
                Cardinality({i \in 1..Len(rBlock.minorBlockHeaderList) :
                                rBlock.minorBlockHeaderList[i].branch.shardId = s})
                    >= proofOfProgressBlocks

\* The last header of shard s in a list of headers that holds one.
LastOfShard(list, s) ==
    list[CHOOSE i \in 1..Len(list) :
            /\ list[i].branch.shardId = s
            /\ \A j \in (i + 1)..Len(list) : list[j].branch.shardId # s]

\* The root block at position i of the root chain.
RootBlockAt(i) == db.rblock[GetHash(rootChain.chain[i])]

\* C11: the headers of every accepted root block are grouped by shard, the
\* shards ascending from 0 to shardSize - 1 with none skipped; in a shard each
\* header names the one before it, and the first names the last header of the
\* shard in the previous root block.
C11_HeadersOrderedAndLinked ==
    \A n \in 2..Len(rootChain.chain) :
        LET list == RootBlockAt(n).minorBlockHeaderList
            prev == RootBlockAt(n - 1).minorBlockHeaderList
        IN  /\ Len(list) > 0
            /\ list[1].branch.shardId = 0
            /\ list[Len(list)].branch.shardId = RootBlockAt(n).header.shardInfo.shardSize - 1
            /\ \A i \in 2..Len(list) :
                  \/ /\ list[i].branch.shardId = list[i - 1].branch.shardId
                     /\ list[i].hashPrevMinorBlock = GetHash(list[i - 1])
                  \/ list[i].branch.shardId = list[i - 1].branch.shardId + 1
            /\ \A i \in 1..Len(list) :
                  (i = 1 \/ list[i].branch.shardId # list[i - 1].branch.shardId) =>
                      /\ \E j \in 1..Len(prev) :
                            prev[j].branch.shardId = list[i].branch.shardId
                      /\ list[i].hashPrevMinorBlock =
                            GetHash(LastOfShard(prev, list[i].branch.shardId))

\* An accepted root block embeds two headers of one shard.
C11_Witness ==
    \E n \in 2..Len(rootChain.chain) :
        Len(RootBlockAt(n).minorBlockHeaderList) > ShardSize

\* The keys in the pool of shard s that name an output of a transaction of a
\* block on the chain of another shard.
DeliveredKeys(s) ==
    {k \in DOMAIN shardList[s].utxoPool :
        \E o \in Shards \ {s} : \E b \in BlocksOnChain(o) : \E t \in 2..Len(b.txList) :
            k.hash = GetHash(b.txList[t])}

\* C12: when appendRootBlock does not succeed, the root chain, the root header
\* index, the uncommitted set and every pool are as before the call; when it
\* succeeds, every cross-shard output of the embedded blocks is in the pool of
\* its shard.
C12_AppendRootBlockAllOrNothing ==
    \A rBlock \in RootBlockCands :
        LET r == AppendRootBlock(World, rBlock, proofOfProgressBlocks)
        IN  /\ r.result # None =>
                  /\ r.world.rootChain.chain = rootChain.chain
                  /\ r.world.rootChain.blockPool = rootChain.blockPool
                  /\ r.world.uncommitted = uncommittedMinorBlockHeaderSet
                  /\ \A s \in Shards :
                        r.world.shardList[s].utxoPool = shardList[s].utxoPool
            /\ r.result = None =>
                  \A i \in 1..Len(rBlock.minorBlockHeaderList) :
                      LET mBlock == db.mblock[GetHash(rBlock.minorBlockHeaderList[i])]
                      IN  \A t \in 2..Len(mBlock.txList) :
                            \A o \in 1..Len(mBlock.txList[t].outList) :
                              LET dest == mBlock.txList[t].outList[o].fullShardId % ShardSize
                              IN  dest # mBlock.header.branch.shardId =>
                                    TransactionInput(GetHash(mBlock.txList[t]), o - 1)
                                        \in DOMAIN r.world.shardList[dest].utxoPool

\* A root block delivered a cross-shard output, and a root block offered now is
\* refused by the last check of the validation.
C12_Witness ==
    /\ \E s \in Shards : DeliveredKeys(s) # {}
    /\ \E rBlock \in RootBlockCands :
          AppendRootBlock(World, rBlock, proofOfProgressBlocks).result
              = "incorrect coinbase quarkash"

\* The heights of the root blocks on the root chain that embed the header of a
\* block, on the chain of a shard other than s, whose transaction made key.
CommittingHeights(s, key) ==
    {rb.header.height : rb \in {x \in RootBlocksOnChain :
        \E o \in Shards \ {s} : \E b \in BlocksOnChain(o) :
            /\ b.header \in SeqToSet(x.minorBlockHeaderList)
            /\ \E t \in 2..Len(b.txList) : key.hash = GetHash(b.txList[t])}}

\* Every cross-shard input of the transactions of block was committed at or
\* below the root header that block names.
SpendsAtOrAboveCommit(s, block) ==
    \A t \in 2..Len(block.txList) : \A i \in 1..Len(block.txList[t].inList) :
        \A ht \in CommittingHeights(s, block.txList[t].inList[i]) :
            ht <= rootChain.blockPool[block.header.hashPrevRootBlock].height

\* C13: a transaction is accepted only if the confirming root header of each
\* input is at most as high as the root header the block names; a block that
\* spends a cross-shard output is accepted only if it names a root header at or
\* above the root block that committed the source block, also when the block
\* is offered after a block that spent the output was rolled back.
C13_InputsConfirmedAtOrBelow ==
    \A s \in Shards :
        /\ \A tx \in TxCands(db, s, shardList[s].utxoPool) :
              \A h \in DOMAIN rootChain.blockPool :
                  PerformTx(shardList[s].utxoPool, shardList[s].branch, db, tx,
                            rootChain.blockPool[h]).fee >= 0 =>
                      \A i \in 1..Len(tx.inList) :
                          shardList[s].utxoPool[tx.inList[i]].rootBlockHeader.height
                              <= rootChain.blockPool[h].height
        /\ \A block \in GoodMinorBlocks(s) :
              LET a == ShardAppendBlock(shardList[s], rootChain, db, block)
                  r == ShardRollBackTip(a.shard, a.db)
              IN  a.result = None =>
                      /\ SpendsAtOrAboveCommit(s, block)
                      /\ r.result = None =>
                            \A h \in DOMAIN rootChain.blockPool :
                                LET again == MinorBlock(s, block.header.height,
                                                        block.header.hashPrevMinorBlock,
                                                        h, block.txList)
                                IN  ShardAppendBlock(r.shard, rootChain, a.db, again).result
                                        = None => SpendsAtOrAboveCommit(s, again)

\* C16: rollBackTip of a shard whose chain holds only the genesis block returns
\* an error and leaves chain and pool as they are; the chain of every shard
\* starts with its genesis block, before and after a rollBackTip.
C16_GenesisIsNeverRolledBack ==
    \A s \in Shards :
        LET r == ShardRollBackTip(shardList[s], db)
        IN  /\ Len(shardList[s].chain) >= 1
            /\ shardList[s].chain[1] = GenesisMinorBlock(s)
            /\ Len(r.shard.chain) >= 1
            /\ r.shard.chain[1] = GenesisMinorBlock(s)
            /\ Len(shardList[s].chain) = 1 =>
                  /\ r.result = "Cannot roll back genesis block"
                  /\ r.shard = shardList[s]

\* A shard is back at its genesis block after a block was rolled back, and
\* rollBackTip is refused there.
C16_Witness ==
    \E s \in Shards :
        /\ Len(shardList[s].chain) = 1
        /\ \E h \in RolledBackBlocks : db.mblock[h].header.branch.shardId = s
        /\ ShardRollBackTip(shardList[s], db).result = "Cannot roll back genesis block"

\* The shard that an output recorded in the database is addressed to.
OwnerShard(key) == db.tx[key.hash].outList[key.index + 1].fullShardId % ShardSize

\* C14: every entry of the pool of a shard is an output addressed to that
\* shard, also in the pool that a rollBackTip of the shard leaves.
C14_PoolHoldsOwnOutputsOnly ==
    \A s \in Shards :
        /\ \A k \in DOMAIN shardList[s].utxoPool : OwnerShard(k) = s
        /\ \A k \in DOMAIN ShardRollBackTip(shardList[s], db).shard.utxoPool :
              OwnerShard(k) = s

\* A pool holds a delivered cross-shard output, and a pool holds an output
\* that a transaction of its own shard made.
C14_Witness ==
    /\ \E s \in Shards : DeliveredKeys(s) # {}
    /\ \E s \in Shards : \E k \in (DOMAIN shardList[s].utxoPool) \ DeliveredKeys(s) :
          db.tx[k.hash].code = TxCode

\* Every listed header is the header of a block the database holds.
HeadersKnown(list) == \A i \in 1..Len(list) : GetHash(list[i]) \in DOMAIN db.mblock

\* C15: the coinbase output of an accepted root block is at most the sum of
\* the coinbase outputs of the minor blocks it embeds; a root block that is
\* acceptable but for a larger amount is rejected with "incorrect coinbase
\* quarkash".
C15_RootCoinbaseAtMostMinorCoinbases ==
    /\ \A n \in 2..Len(rootChain.chain) :
          RootBlockAt(n).coinbaseTx.outList[1].quarkash
              <= CoinbaseOf(RootBlockAt(n).minorBlockHeaderList)
    /\ \A rBlock \in RootBlockCands :
          LET r == AppendRootBlock(World, rBlock, proofOfProgressBlocks)
              list == rBlock.minorBlockHeaderList
              lowered == RootBlock(rBlock.header.height, rBlock.header.hashPrevBlock,
                                   rBlock.header.shardInfo.shardSize,
                                   RootCoinbaseTx(rBlock.header.height, CoinbaseOf(list)),
                                   list)
          IN  /\ r.result = None =>
                    /\ HeadersKnown(list)
                    /\ rBlock.coinbaseTx.outList[1].quarkash <= CoinbaseOf(list)
              /\ (/\ HeadersKnown(list)
                  /\ Len(rBlock.coinbaseTx.outList) = 1
                  /\ rBlock.coinbaseTx.outList[1].quarkash > CoinbaseOf(list)) =>
                    /\ r.result # None
                    /\ AppendRootBlock(World, lowered, proofOfProgressBlocks).result = None
                          => r.result = "incorrect coinbase quarkash"

\* A root block was accepted, and one that takes more than the minor
\* coinbases is offered and refused for it.
C15_Witness ==
    /\ Len(rootChain.chain) >= 2
    /\ \E rBlock \in RootBlockCands :
          /\ HeadersKnown(rBlock.minorBlockHeaderList)
          /\ rBlock.coinbaseTx.outList[1].quarkash
                > CoinbaseOf(rBlock.minorBlockHeaderList)
          /\ AppendRootBlock(World, rBlock, proofOfProgressBlocks).result
                = "incorrect coinbase quarkash"

\* The results that stand for an exception leaving the method.
Raised ==
    {"raise AssertionError", "raise KeyError", "raise TypeError", "raise IndexError",
     "raise AttributeError"}

\* C17: rollBackRootBlock on a root chain that holds only the genesis root
\* block returns an error string and changes nothing.
C17_RollBackRootGenesisRefused ==
    Len(rootChain.chain) = 1 =>
        LET r == RollBackRootBlock(World)
        IN  /\ r.result # None
            /\ r.result \notin Raised
            /\ r.world = World

\* C18: appendMinorBlock returns an error and changes nothing when the block's
\* shardSize is not the number of shards; otherwise it returns what appendBlock
\* of the shard the header names returns, and the header is added to the
\* uncommitted set exactly when that is success.
C18_AppendMinorBlockDelegates ==
    \A s \in Shards : \A mBlock \in MinorBlockCands(s) :
        LET r == AppendMinorBlock(World, mBlock)
            sid == mBlock.header.branch.shardId
            a == ShardAppendBlock(shardList[sid], rootChain, db, mBlock)
        IN  IF mBlock.header.branch.shardSize # ShardSize
            THEN /\ r.result # None
                 /\ r.result \notin Raised
                 /\ r.world = World
            ELSE /\ r.result = a.result
                 /\ r.world.shardList = [shardList EXCEPT ![sid] = a.shard]
                 /\ r.world.rootChain = rootChain
                 /\ r.world.uncommitted =
                       IF a.result = None
                       THEN uncommittedMinorBlockHeaderSet \cup {mBlock.header}
                       ELSE uncommittedMinorBlockHeaderSet

\* A block was accepted and its header recorded, and a block offered now is
\* refused by the shard.
C18_Witness ==
    /\ \E s \in Shards : \E b \in BlocksOnChain(s) :
          b.header \in uncommittedMinorBlockHeaderSet
    /\ \E s \in Shards : \E mBlock \in MinorBlockCands(s) :
          AppendMinorBlock(World, mBlock).result = "one transaction is invalid"

\* C19: rollBackMinorBlock returns an error string and changes nothing for
\* every shardId outside 0 .. |shardList| - 1.
C19_RollBackMinorOutOfRange ==
    \A shardId \in ((-1)..(ShardSize + 1)) \ Shards :
        LET r == RollBackMinorBlock(World, shardId)
        IN  /\ r.result # None
            /\ r.result \notin Raised
            /\ r.world = World

\* The worker has taken a falsy block from the input queue and has not yet
\* answered it.
TookFalsy(m) ==
    \/ m.workerPc \in {"L161", "L176"}
    \/ m.workerPc = "L194" /\ m.workerBlock = None

\* The step appends to the output queue.
Emitted == Len(miner'.output_q) > Len(miner.output_q)

\* C20: a worker (simulate_mine or mine_ethash) that takes a falsy block from
\* the input queue answers it by putting None on the output queue and
\* terminating, and puts no mined block on the output queue from then on; the
\* handler that reads a None from the output queue returns and does not call
\* add_block_async_func for it, so that None is never an argument of
\* add_block_async_func.  The worker that runs does terminate, and the handler
\* that is resumed does return.
C20_SentinelStopsWorkerAndHandler ==
    /\ [][/\ (/\ miner.input_q # <<>>
              /\ Head(miner.input_q) = None
              /\ miner'.input_q = Tail(miner.input_q)) => TookFalsy(miner')
          /\ (TookFalsy(miner) /\ miner'.workerPc # miner.workerPc) =>
                 /\ miner'.output_q = Append(miner.output_q, None)
                 /\ miner'.workerPc = "done"
          /\ (TookFalsy(miner) /\ miner'.workerPc = miner.workerPc) => ~Emitted
          /\ miner.workerPc = "done" => miner'.workerPc = "done" /\ ~Emitted
          /\ (/\ miner.handlerPc = "L75"
              /\ miner.output_q # <<>>
              /\ Head(miner.output_q) = None
              /\ miner'.output_q = Tail(miner.output_q)) =>
                 /\ miner'.handlerPc = "returned"
                 /\ miner'.added = miner.added
          /\ miner.handlerPc = "returned" =>
                 /\ miner'.handlerPc = "returned"
                 /\ miner'.added = miner.added
          /\ \A i \in 1..Len(miner'.added) : miner'.added[i] # None]_vars
    /\ (TookFalsy(miner) ~> (miner.workerPc = "done"))
    /\ ((/\ miner.handlerPc = "L75"
         /\ miner.output_q # <<>>
         /\ Head(miner.output_q) = None) ~> (miner.handlerPc = "returned"))

\* A block was mined and added, then the worker took a falsy block and
\* terminated, and the handler read the None and returned.
C20_Witness ==
    /\ miner.workerPc = "done"
    /\ miner.handlerPc = "returned"
    /\ miner.added # <<>>

\* C21: once disable() has been called while the worker process was running,
\* the worker terminates, and add_block_async_func is called for no block
\* beyond those the worker had mined when disable() was called.
C21_DisableStopsWorker ==
    /\ [](miner.disabledWhileRunning => Len(miner.added) <= miner.minedAtDisable)
    /\ (miner.disabledWhileRunning ~> ~WorkerRunning(miner))

\* The blocks create_block_async_func makes.
AllCreatedBlocks == {CreatedBlock(n) : n \in 1..MaxCreated}

\* C25: however the mine_new_block coroutines interleave, one worker process
\* at most is started; a mine_new_block that finds the process started puts
\* its block on the input queue and touches neither the process, the worker
\* nor the handler; the running worker that takes a block from the input
\* queue mines that block from then on (what it puts out is the block it
\* holds), and a block at the head of the input queue of a running worker is
\* taken.
C25_OneWorkerProcess ==
    /\ [](miner.processesStarted <= 1)
    /\ [][/\ (miner.process # None /\ miner'.created = miner.created + 1) =>
                 /\ Len(miner'.input_q) = Len(miner.input_q) + 1
                 /\ miner'.process = miner.process
                 /\ miner'.processesStarted = miner.processesStarted
                 /\ miner'.workerPc = miner.workerPc
                 /\ miner'.workerBlock = miner.workerBlock
                 /\ miner'.handlerPc = miner.handlerPc
          /\ (/\ miner.input_q # <<>>
              /\ miner'.input_q = Tail(miner.input_q)) =>
                 miner'.workerBlock = Head(miner.input_q)
          /\ (Emitted /\ miner'.output_q[Len(miner'.output_q)] # None) =>
                 miner'.output_q[Len(miner'.output_q)] = miner.workerBlock]_vars
    /\ \A b \in AllCreatedBlocks :
          (/\ WorkerRunning(miner)
           /\ miner.input_q # <<>>
           /\ Head(miner.input_q) = b) ~> (miner.workerBlock = b \/ ~WorkerRunning(miner))

\* The second block made went through the input queue to the one worker,
\* which mined it and put it out.
C25_Witness ==
    /\ miner.processesStarted = 1
    /\ miner.workerBlock = CreatedBlock(2)
    /\ \E i \in 1..Len(miner.added) : miner.added[i] = CreatedBlock(2)

\* C22: for every root block on the root chain, taken as the previous root
\* block, the lastBlockHashList that RootChain.appendBlock computes has one
\* entry for each shard, entry s is the hash of the last header of shard s in
\* that block, and no assertion fails; no root block offered to appendRootBlock
\* ends in an AssertionError.
C22_LastBlockHashListPerShard ==
    /\ \A n \in 1..Len(rootChain.chain) :
          LET prevBlock == RootBlockAt(n)
              last == LastBlockHashList(prevBlock)
          IN  /\ last.result = None
              /\ Len(last.lastBlockHashList) = prevBlock.header.shardInfo.shardSize
              /\ \A sh \in 0..(prevBlock.header.shardInfo.shardSize - 1) :
                    last.lastBlockHashList[sh + 1] =
                        GetHash(LastOfShard(prevBlock.minorBlockHeaderList, sh))
    /\ \A rBlock \in RootBlockCands :
          AppendRootBlock(World, rBlock, proofOfProgressBlocks).result
              # "raise AssertionError"

\* The checks of RootChain.appendBlock that come before the embedded headers
\* are looked at all pass for block.
PassesHeaderChecks(block) ==
    /\ block.header.hashPrevBlock = GetHash(rootChain.chain[Len(rootChain.chain)])
    /\ block.header.height = Len(rootChain.chain)
    /\ block.header.hashCoinbaseTx = GetHash(block.coinbaseTx)
    /\ CheckCoinbaseTx(block.coinbaseTx, block.header.height)
    /\ CalculateMerkleRoot(block.minorBlockHeaderList) = block.header.hashMerkleRoot
    /\ SKIP_ROOT_DIFFICULTY_CHECK

\* C23: a root block that passes the previous-hash, height, coinbase, merkle
\* and difficulty checks and embeds a header that is not in the uncommitted set
\* is refused by RootChain.appendBlock with "root block confirms non-exist
\* block", whatever the shardSize of the headers listed before that one.
C23_NonExistBlockComesFirst ==
    \A block \in RootBlockCands :
        (/\ PassesHeaderChecks(block)
         /\ \E i \in 1..Len(block.minorBlockHeaderList) :
               block.minorBlockHeaderList[i] \notin uncommittedMinorBlockHeaderSet) =>
            RootChainAppendBlock(rootChain, db, uncommittedMinorBlockHeaderSet, block,
                                 proofOfProgressBlocks).result
                = "root block confirms non-exist block"

\* The places of a chain where a transaction consumes an input: block,
\* transaction and input positions.
SpendingPlaces(chain) ==
    {<<b, t, i>> \in (2..Len(chain)) \X (2..(MaxTxPerBlock + 1)) \X (1..2) :
        /\ t <= Len(chain[b].txList)
        /\ i <= Len(chain[b].txList[t].inList)}

\* No two transactions of the blocks of chain consume the same (hash, index).
NoDoubleSpend(chain) ==
    \A p \in SpendingPlaces(chain) : \A q \in SpendingPlaces(chain) :
        (<<p[1], p[2]>> # <<q[1], q[2]>>) =>
            chain[p[1]].txList[p[2]].inList[p[3]] # chain[q[1]].txList[q[2]].inList[q[3]]

\* The successors of the tip of shard s that carry one transaction.
OneTxBlocks(s) ==
    LET tip == shardList[s].chain[Len(shardList[s].chain)]
    IN  {MinorBlock(s, tip.header.height + 1, GetHash(tip.header), hr,
                    <<MinorCoinbaseTx(s, tip.header.height + 1), tx>>) :
            hr \in DOMAIN rootChain.blockPool,
            tx \in TxCands(db, s, shardList[s].utxoPool)}

\* C24: a transaction that names an input twice, or an input that is not in
\* the pool of the shard, is refused by __performTx and leaves the pool as it
\* was; and whatever appends and rollbacks came before, no two transactions of
\* the blocks on the chain of a shard consume the same (hash, index), now and
\* after one more block is appended.
C24_SpentOnce ==
    \A s \in Shards :
        /\ \A tx \in TxCands(db, s, shardList[s].utxoPool) :
           \A hr \in DOMAIN rootChain.blockPool :
              (\/ \E i \in 1..Len(tx.inList) : tx.inList[i] \notin DOMAIN shardList[s].utxoPool
               \/ \E i \in 1..Len(tx.inList) : \E j \in 1..Len(tx.inList) :
                     i # j /\ tx.inList[i] = tx.inList[j]) =>
                  LET r == PerformTx(shardList[s].utxoPool, shardList[s].branch, db, tx,
                                     rootChain.blockPool[hr])
                  IN  r.fee = -1 /\ r.utxoPool = shardList[s].utxoPool
        /\ NoDoubleSpend(shardList[s].chain)
        /\ \A block \in OneTxBlocks(s) :
              NoDoubleSpend(ShardAppendBlock(shardList[s], rootChain, db, block).shard.chain)

\* In world w every non-genesis minor block on the chain of a shard names a
\* root header that is on the root chain and in the root header index.
RootRefsOnChain(w) ==
    \A s \in Shards : \A n \in 2..Len(w.shardList[s].chain) :
        LET h == w.shardList[s].chain[n].header.hashPrevRootBlock
        IN  /\ h \in DOMAIN w.rootChain.blockPool
            /\ \E i \in 1..Len(w.rootChain.chain) : GetHash(w.rootChain.chain[i]) = h

\* C26: after any sequence of the coordinator's operations every non-genesis
\* minor block on the chain of a shard names a root header that is on the root
\* chain and in the root header index, and a rollBackRootBlock called now
\* leaves it so.
C26_MinorBlocksNameLiveRootBlocks ==
    /\ RootRefsOnChain(World)
    /\ RootRefsOnChain(RollBackRootBlock(World).world)

\* A minor block on the chain of a shard names the tip of the root chain,
\* which is not the genesis root block.
C26_Witness ==
    /\ Len(rootChain.chain) > 1
    /\ \E s \in Shards : \E n \in 2..Len(shardList[s].chain) :
          shardList[s].chain[n].header.hashPrevRootBlock
              = GetHash(rootChain.chain[Len(rootChain.chain)])

====
